---- MODULE Spec2Model ----
(***************************************************************************)
(* validator_derive/src/quoting.rs: the translation of declared validation *)
(* rules into fragments of generated code, and the behaviour of those      *)
(* fragments when the generated validate() procedure runs.                 *)
(*                                                                         *)
(* A fragment (quote::Tokens) is modelled as a syntax tree built exactly   *)
(* where the source's quote!() templates build tokens.  The generated      *)
(* procedure is modelled by an interpreter of these trees over a structure *)
(* instance `self` and the error collection `errors`.                      *)
(*                                                                         *)
(* Runtime values.  A field of a type with L layers of Option is the       *)
(* record [some |-> k, v |-> n]: k of its layers are Some (k <= L) and,    *)
(* when k = L, n is the payload.  A string payload is represented by its   *)
(* length n, a number by itself.                                           *)
(***************************************************************************)
EXTENDS Integers, Sequences, FiniteSets, TLC

\* Payloads range over 0..MaxVal.
MaxVal == 2
\* The generated procedure is followed until the collection holds MaxErrors records.
MaxErrors == 2

Val(k, n) == [some |-> k, v |-> n]
\* The value of a parameter slot that no add_param has filled.
Absent == [some |-> 0 - 1, v |-> 0]

(***************************************************************************)
(* Type texts, as the token sequences of the field's declared type.        *)
(***************************************************************************)
TString == <<"String">>
TRefStr == <<"&", "str">>
TU64 == <<"u64">>
TOptString == <<"Option", "<", "String", ">">>
TOptRefStr == <<"Option", "<", "&", "str", ">">>
TOptU64 == <<"Option", "<", "u64", ">">>
TOptOptString == <<"Option", "<", "Option", "<", "String", ">", ">">>
TypeTexts == {TString, TRefStr, TU64, TOptString, TOptRefStr, TOptU64, TOptOptString}

NUMBER_TYPES == {TU64, TOptU64}

\* str::starts_with on type texts.
starts_with(text, prefix) ==
    /\ Len(text) >= Len(prefix)
    /\ SubSeq(text, 1, Len(prefix)) = prefix

\* The number of Option layers of the Rust type a type text denotes.
RECURSIVE OptionLayers(_)
OptionLayers(text) ==
    IF Len(text) >= 2 /\ text[1] = "Option" /\ text[2] = "<"
    THEN 1 + OptionLayers(SubSeq(text, 3, Len(text) - 1))
    ELSE 0

\* The values a field of the given type can hold.
ValuesOf(text) ==
    LET L == OptionLayers(text) IN
    {Val(k, 0) : k \in 0..(L - 1)} \cup {Val(L, n) : n \in 0..MaxVal}

Idents == {"x", "y"}
ALL == "__all__"
\* Declared names: a field's own identifier, or the name a rename attribute gives it.
Renamed == "x_renamed"
Names == {"x", "y", Renamed, ALL}
Keys == Names \cup {ALL}

(***************************************************************************)
(* Tokens: expressions, statements, calls and fragments.                   *)
(***************************************************************************)
\* #ident, self.#ident, &self.#ident, and an interpolated literal.
Var(id) == [e |-> "var", ident |-> id, n |-> 0]
SelfDot(id) == [e |-> "self", ident |-> id, n |-> 0]
RefSelfDot(id) == [e |-> "ref_self", ident |-> id, n |-> 0]
Lit(k) == [e |-> "lit", ident |-> "", n |-> k]

\* let mut err = ValidationError::new(code); err.message = Some(m);
\* err.add_param(key, &expr); errors.add(key, err);
LetErr(c) == [s |-> "let_err", key |-> c, arg |-> Lit(0)]
SetMessage(m) == [s |-> "set_message", key |-> m, arg |-> Lit(0)]
AddParam(k, ex) == [s |-> "add_param", key |-> k, arg |-> ex]
ErrorsAdd(k) == [s |-> "errors_add", key |-> k, arg |-> Lit(0)]

NoBound == <<>>
Call(f, a) ==
    [fn |-> f, path |-> "", min |-> NoBound, max |-> NoBound, equal |-> NoBound,
     needle |-> 0, arg |-> a, arg2 |-> a]

EmptyTokens == [node |-> "empty"]
IfNot(c, stmts) == [node |-> "ifnot", call |-> c, then |-> stmts]
MatchResult(c, stmts) == [node |-> "match", call |-> c, then |-> stmts]
IfLetSome(d, pat, id, body) ==
    [node |-> "iflet", depth |-> d, pattern |-> pat, ident |-> id, body |-> body]
IfErrorsEmpty(body) == [node |-> "ifempty", body |-> body]

(***************************************************************************)
(* The runtime validation library the generated code calls by contract     *)
(* (crate validator): the predicates, ValidationError and ValidationErrors.*)
(***************************************************************************)
validate_length(min, max, equal, len) ==
    IF equal # NoBound THEN len = equal[1]
    ELSE /\ (min # NoBound => len >= min[1])
         /\ (max # NoBound => len <= max[1])

validate_range(min, max, val) == min[1] <= val /\ val <= max[1]

\* The verdicts of the pattern predicates are the library's own; the model
\* fixes one verdict per payload, a different predicate for each rule kind.
validate_email(val) == val % 2 = 1
validate_url(val) == val % 2 = 0
validate_credit_card(val) == val >= 1
validate_phone(val) == val = 0
validate_contains(val, needle) == needle <= val
validate_must_match(a, b) == a = b
\* Regex::is_match of the pattern the path names.
is_match(path, val) == val % 3 = 1

NoParams ==
    [min |-> Absent, max |-> Absent, equal |-> Absent, value |-> Absent,
     other |-> Absent, needle |-> Absent]
NoMessage == <<>>
\* ValidationError::new(code)
ValidationError_new(code) == [code |-> code, message |-> NoMessage, params |-> NoParams]

\* ValidationErrors::new(), ::add(field, error), ::is_empty()
ValidationErrors_new == [k \in Keys |-> <<>>]
errors_add(errs, key, err) == [errs EXCEPT ![key] = Append(@, err)]
errors_is_empty(errs) == \A k \in Keys : errs[k] = <<>>

(***************************************************************************)
(* The user's functions named by Custom rules and by the schema rule: each *)
(* returns Ok(()) or Err(error) with an error of the user's making, here   *)
(* one whose code is the function's own path.                              *)
(***************************************************************************)
CustomPath == "validate_field"
SchemaPath == "validate_struct"
RegexPath == "RE"
\* The verdict of the user's field function on a payload.
custom_ok(path, n) == n >= 1
UserFn(path, val, ctx) ==
    IF path = SchemaPath
    THEN [ok |-> ~ctx.schemaFails, err |-> ValidationError_new(path)]
    ELSE [ok |-> custom_ok(path, val.v), err |-> ValidationError_new(path)]

(***************************************************************************)
(* Execution of the generated code.  ctx holds the structure instance      *)
(* (self), the bindings made by `if let` patterns (env) and the verdict of *)
(* the schema function on this instance; st holds the error collection,    *)
(* the calls made so far and the records added so far.                     *)
(***************************************************************************)
Eval(ex, ctx) ==
    CASE ex.e = "var" -> ctx.env[ex.ident]
      [] ex.e \in {"self", "ref_self"} -> ctx.self[ex.ident]
      [] ex.e = "lit" -> Val(0, ex.n)
      [] OTHER -> Absent

CallLib(c, ctx) ==
    LET a == Eval(c.arg, ctx) IN
    CASE c.fn = "validate_length" -> validate_length(c.min, c.max, c.equal, a.v)
      [] c.fn = "validate_range" -> validate_range(c.min, c.max, a.v)
      [] c.fn = "validate_email" -> validate_email(a.v)
      [] c.fn = "validate_url" -> validate_url(a.v)
      [] c.fn = "validate_credit_card" -> validate_credit_card(a.v)
      [] c.fn = "validate_phone" -> validate_phone(a.v)
      [] c.fn = "validate_contains" -> validate_contains(a.v, c.needle)
      [] c.fn = "validate_must_match" -> validate_must_match(a, Eval(c.arg2, ctx))
      [] c.fn = "is_match" -> is_match(c.path, a.v)
      [] OTHER -> TRUE

RECURSIVE RunStmts(_, _, _, _, _)
RunStmts(stmts, i, err, st, ctx) ==
    IF i > Len(stmts) THEN st
    ELSE LET s == stmts[i] IN
         CASE s.s = "let_err" ->
                RunStmts(stmts, i + 1, ValidationError_new(s.key), st, ctx)
           [] s.s = "set_message" ->
                RunStmts(stmts, i + 1, [err EXCEPT !.message = <<s.key>>], st, ctx)
           [] s.s = "add_param" ->
                RunStmts(stmts, i + 1,
                         [err EXCEPT !.params[s.key] = Eval(s.arg, ctx)], st, ctx)
           [] s.s = "errors_add" ->
                RunStmts(stmts, i + 1, err,
                         [st EXCEPT !.errors = errors_add(@, s.key, err),
                                    !.added = Append(@, [key |-> s.key, err |-> err])],
                         ctx)
           [] OTHER -> RunStmts(stmts, i + 1, err, st, ctx)

NoState(errs) == [errors |-> errs, calls |-> <<>>, added |-> <<>>]
Called(st, c) == [st EXCEPT !.calls = Append(@, <<c.fn, c.path>>)]

RECURSIVE Exec(_, _, _)
Exec(tokens, st, ctx) ==
    CASE tokens.node = "ifnot" ->
           IF ~CallLib(tokens.call, ctx)
           THEN RunStmts(tokens.then, 1, ValidationError_new(""), Called(st, tokens.call), ctx)
           ELSE Called(st, tokens.call)
      [] tokens.node = "match" ->
           LET r == UserFn(tokens.call.path, Eval(tokens.call.arg, ctx), ctx) IN
           IF r.ok THEN Called(st, tokens.call)
           ELSE RunStmts(tokens.then, 1, r.err, Called(st, tokens.call), ctx)
      [] tokens.node = "iflet" ->
           LET val == ctx.self[tokens.ident] IN
           IF val.some >= tokens.depth
           THEN Exec(tokens.body, st,
                     [ctx EXCEPT !.env[tokens.pattern.ident] =
                                     Val(val.some - tokens.depth, val.v)])
           ELSE st
      [] tokens.node = "ifempty" ->
           IF errors_is_empty(st.errors) THEN Exec(tokens.body, st, ctx) ELSE st
      [] OTHER -> st

(***************************************************************************)
(* quoting.rs.  FieldQuoter is [ident, name, _type]; a FieldValidation is  *)
(* [validator, code, message] with message NoMessage or <<m>>; a Validator *)
(* is [kind, min, max, equal, other, path, needle], where min, max and     *)
(* equal are NoBound or <<n>>.  A translator returns [panic, tokens]:      *)
(* unreachable!() aborts the generation and returns no tokens.             *)
(***************************************************************************)
FieldQuoter_new(ident, name, _type) == [ident |-> ident, name |-> name, _type |-> _type]

Tokens(t) == [panic |-> FALSE, tokens |-> t]
Unreachable == [panic |-> TRUE, tokens |-> EmptyTokens]

quote_validator_param(fq) ==
    IF starts_with(fq._type, <<"Option", "<">>) THEN Var(fq.ident)
    ELSE IF starts_with(fq._type, <<"&">>) \/ fq._type \in NUMBER_TYPES
         THEN SelfDot(fq.ident)
         ELSE RefSelfDot(fq.ident)

get_optional_validator_param(fq) ==
    IF \/ starts_with(fq._type, <<"Option", "<", "&">>)
       \/ starts_with(fq._type, <<"Option", "<", "Option", "<", "&">>)
       \/ fq._type \in NUMBER_TYPES
    THEN [bind |-> "value", ident |-> fq.ident]
    ELSE [bind |-> "ref", ident |-> fq.ident]

\* Variants of wrap_if_option: one that never wraps, one that knows a single layer only.
wrap_if_option_unwrapped(fq, tokens) == tokens

wrap_if_option_one_layer(fq, tokens) ==
    IF starts_with(fq._type, <<"Option", "<">>)
    THEN IfLetSome(1, get_optional_validator_param(fq), fq.ident, tokens)
    ELSE tokens

wrap_if_option(fq, tokens) ==
    LET optional_pattern_matched == get_optional_validator_param(fq) IN
    IF starts_with(fq._type, <<"Option", "<", "Option", "<">>)
    THEN IfLetSome(2, optional_pattern_matched, fq.ident, tokens)
    ELSE IF starts_with(fq._type, <<"Option", "<">>)
         THEN IfLetSome(1, optional_pattern_matched, fq.ident, tokens)
         ELSE tokens

add_message_quoted(message) ==
    IF message # NoMessage THEN <<SetMessage(message[1])>> ELSE <<>>

\* Variant of quote_error: the error is built with a fixed code.
quote_error_fixed_code(validation) ==
    <<LetErr("invalid")>> \o add_message_quoted(validation.message)

quote_error(validation) ==
    <<LetErr(validation.code)>> \o add_message_quoted(validation.message)

\* lit.rs option_u64_to_tokens: Some(v) becomes the tokens Some(v), None the tokens None.
option_u64_to_tokens(opt) == IF opt = NoBound THEN NoBound ELSE <<opt[1]>>

err_param_quoted(key, opt) ==
    IF opt # NoBound THEN <<AddParam(key, Lit(opt[1]))>> ELSE <<>>

\* Variant of quote_length_validation: the min bound is attached under "max".
quote_length_validation_min_as_max(fq, validation) ==
    LET validator_param == quote_validator_param(fq)
        v == validation.validator
    IN  IF v.kind = "Length"
        THEN LET c == [Call("validate_length", validator_param) EXCEPT
                          !.min = option_u64_to_tokens(v.min),
                          !.max = option_u64_to_tokens(v.max),
                          !.equal = option_u64_to_tokens(v.equal)]
                 quoted == IfNot(c,
                              quote_error(validation)
                              \o err_param_quoted("max", v.min)
                              \o err_param_quoted("max", v.max)
                              \o err_param_quoted("equal", v.equal)
                              \o <<AddParam("value", validator_param),
                                   ErrorsAdd(fq.name)>>)
             IN  Tokens(wrap_if_option(fq, quoted))
        ELSE Unreachable

quote_length_validation(fq, validation) ==
    LET validator_param == quote_validator_param(fq)
        v == validation.validator
    IN  IF v.kind = "Length"
        THEN LET c == [Call("validate_length", validator_param) EXCEPT
                          !.min = option_u64_to_tokens(v.min),
                          !.max = option_u64_to_tokens(v.max),
                          !.equal = option_u64_to_tokens(v.equal)]
                 quoted == IfNot(c,
                              quote_error(validation)
                              \o err_param_quoted("min", v.min)
                              \o err_param_quoted("max", v.max)
                              \o err_param_quoted("equal", v.equal)
                              \o <<AddParam("value", validator_param),
                                   ErrorsAdd(fq.name)>>)
             IN  Tokens(wrap_if_option(fq, quoted))
        ELSE Unreachable

quote_range_validation(fq, validation) ==
    LET quoted_ident == quote_validator_param(fq)
        v == validation.validator
    IN  IF v.kind = "Range"
        THEN LET c == [Call("validate_range", quoted_ident) EXCEPT
                          !.min = v.min, !.max = v.max]
                 quoted == IfNot(c,
                              quote_error(validation)
                              \o <<AddParam("min", Lit(v.min[1])),
                                   AddParam("max", Lit(v.max[1])),
                                   AddParam("value", quoted_ident),
                                   ErrorsAdd(fq.name)>>)
             IN  Tokens(wrap_if_option(fq, quoted))
        ELSE Unreachable

quote_credit_card_validation(fq, validation) ==
    LET validator_param == quote_validator_param(fq)
        quoted == IfNot(Call("validate_credit_card", validator_param),
                        quote_error(validation)
                        \o <<AddParam("value", validator_param), ErrorsAdd(fq.name)>>)
    IN  Tokens(wrap_if_option(fq, quoted))

\* #[cfg(feature = "phone")]: the feature is enabled.
quote_phone_validation(fq, validation) ==
    LET validator_param == quote_validator_param(fq)
        quoted == IfNot(Call("validate_phone", validator_param),
                        quote_error(validation)
                        \o <<AddParam("value", validator_param), ErrorsAdd(fq.name)>>)
    IN  Tokens(wrap_if_option(fq, quoted))

quote_url_validation(fq, validation) ==
    LET validator_param == quote_validator_param(fq)
        quoted == IfNot(Call("validate_url", validator_param),
                        quote_error(validation)
                        \o <<AddParam("value", validator_param), ErrorsAdd(fq.name)>>)
    IN  Tokens(wrap_if_option(fq, quoted))

\* Variant of quote_email_validation: the error is stored under the field's
\* identifier instead of its declared name.
quote_email_validation_by_ident(fq, validation) ==
    LET validator_param == quote_validator_param(fq)
        quoted == IfNot(Call("validate_email", validator_param),
                        quote_error(validation)
                        \o <<AddParam("value", validator_param), ErrorsAdd(fq.ident)>>)
    IN  Tokens(wrap_if_option(fq, quoted))

quote_email_validation(fq, validation) ==
    LET validator_param == quote_validator_param(fq)
        quoted == IfNot(Call("validate_email", validator_param),
                        quote_error(validation)
                        \o <<AddParam("value", validator_param), ErrorsAdd(fq.name)>>)
    IN  Tokens(wrap_if_option(fq, quoted))

\* Variant of quote_must_match_validation: the two parameters are exchanged.
quote_must_match_validation_swapped(fq, validation) ==
    LET v == validation.validator IN
    IF v.kind = "MustMatch"
    THEN LET other_ident == v.other
             c == [Call("validate_must_match", RefSelfDot(fq.ident)) EXCEPT
                      !.arg2 = RefSelfDot(other_ident)]
             quoted == IfNot(c,
                          quote_error(validation)
                          \o <<AddParam("value", RefSelfDot(other_ident)),
                               AddParam("other", RefSelfDot(fq.ident)),
                               ErrorsAdd(fq.name)>>)
         IN  Tokens(wrap_if_option(fq, quoted))
    ELSE Unreachable

quote_must_match_validation(fq, validation) ==
    LET v == validation.validator IN
    IF v.kind = "MustMatch"
    THEN LET other_ident == v.other
             c == [Call("validate_must_match", RefSelfDot(fq.ident)) EXCEPT
                      !.arg2 = RefSelfDot(other_ident)]
             quoted == IfNot(c,
                          quote_error(validation)
                          \o <<AddParam("value", RefSelfDot(fq.ident)),
                               AddParam("other", RefSelfDot(other_ident)),
                               ErrorsAdd(fq.name)>>)
         IN  Tokens(wrap_if_option(fq, quoted))
    ELSE Unreachable

quote_custom_validation(fq, validation) ==
    LET validator_param == quote_validator_param(fq)
        v == validation.validator
    IN  IF v.kind = "Custom"
        THEN LET c == [Call("user_fn", validator_param) EXCEPT !.path = v.path]
                 quoted == MatchResult(c,
                              add_message_quoted(validation.message)
                              \o <<AddParam("value", validator_param),
                                   ErrorsAdd(fq.name)>>)
             IN  Tokens(wrap_if_option(fq, quoted))
        ELSE Unreachable

quote_contains_validation(fq, validation) ==
    LET validator_param == quote_validator_param(fq)
        v == validation.validator
    IN  IF v.kind = "Contains"
        THEN LET c == [Call("validate_contains", validator_param) EXCEPT
                          !.needle = v.needle]
                 quoted == IfNot(c,
                              quote_error(validation)
                              \o <<AddParam("value", validator_param),
                                   AddParam("needle", Lit(v.needle)),
                                   ErrorsAdd(fq.name)>>)
             IN  Tokens(wrap_if_option(fq, quoted))
        ELSE Unreachable

quote_regex_validation(fq, validation) ==
    LET validator_param == quote_validator_param(fq)
        v == validation.validator
    IN  IF v.kind = "Regex"
        THEN LET c == [Call("is_match", validator_param) EXCEPT !.path = v.path]
                 quoted == IfNot(c,
                              quote_error(validation)
                              \o <<AddParam("value", validator_param),
                                   ErrorsAdd(fq.name)>>)
             IN  Tokens(wrap_if_option(fq, quoted))
        ELSE Unreachable

quote_field_validation(fq, validation) ==
    LET kind == validation.validator.kind IN
    CASE kind = "Length" -> quote_length_validation(fq, validation)
      [] kind = "Range" -> quote_range_validation(fq, validation)
      [] kind = "Email" -> quote_email_validation(fq, validation)
      [] kind = "Url" -> quote_url_validation(fq, validation)
      [] kind = "MustMatch" -> quote_must_match_validation(fq, validation)
      [] kind = "Custom" -> quote_custom_validation(fq, validation)
      [] kind = "Contains" -> quote_contains_validation(fq, validation)
      [] kind = "Regex" -> quote_regex_validation(fq, validation)
      [] kind = "CreditCard" -> quote_credit_card_validation(fq, validation)
      [] kind = "Phone" -> quote_phone_validation(fq, validation)

\* validation is <<>> (None) or <<[function, message, skip_on_field_errors]>>.
quote_schema_validation(validation) ==
    IF validation # <<>>
    THEN LET v == validation[1]
             c == [Call("user_fn", [e |-> "self_struct", ident |-> "", n |-> 0])
                     EXCEPT !.path = v.function]
             quoted == MatchResult(c,
                          add_message_quoted(v.message) \o <<ErrorsAdd("__all__")>>)
         IN  IF ~v.skip_on_field_errors THEN quoted ELSE IfErrorsEmpty(quoted)
    ELSE EmptyTokens

\* A direct call of one per-kind translator.
Translators ==
    {"Length", "Range", "Email", "Url", "MustMatch", "Custom", "Contains", "Regex",
     "CreditCard", "Phone"}
Translate(t, fq, validation) ==
    CASE t = "Length" -> quote_length_validation(fq, validation)
      [] t = "Range" -> quote_range_validation(fq, validation)
      [] t = "Email" -> quote_email_validation(fq, validation)
      [] t = "Url" -> quote_url_validation(fq, validation)
      [] t = "MustMatch" -> quote_must_match_validation(fq, validation)
      [] t = "Custom" -> quote_custom_validation(fq, validation)
      [] t = "Contains" -> quote_contains_validation(fq, validation)
      [] t = "Regex" -> quote_regex_validation(fq, validation)
      [] t = "CreditCard" -> quote_credit_card_validation(fq, validation)
      [] t = "Phone" -> quote_phone_validation(fq, validation)

(***************************************************************************)
(* Inputs: the rules the front end hands over.                             *)
(***************************************************************************)
Validator(kind) ==
    [kind |-> kind, min |-> NoBound, max |-> NoBound, equal |-> NoBound,
     other |-> "", path |-> "", needle |-> 0]

LengthBounds == {NoBound, <<1>>}
LengthValidators ==
    {[Validator("Length") EXCEPT !.min = mn, !.max = mx, !.equal = eq] :
        mn \in LengthBounds, mx \in LengthBounds, eq \in LengthBounds}
    \ {Validator("Length")}

\* The validators declared on field `ident`, whose sibling is `other`.
OtherValidators(other) ==
    {[Validator("Range") EXCEPT !.min = <<1>>, !.max = <<1>>],
     Validator("Email"), Validator("Url"), Validator("CreditCard"), Validator("Phone"),
     [Validator("MustMatch") EXCEPT !.other = other],
     [Validator("Custom") EXCEPT !.path = CustomPath],
     [Validator("Contains") EXCEPT !.needle = 1],
     [Validator("Regex") EXCEPT !.path = RegexPath]}

Codes == {"code_a", "code_b"}
Messages == {NoMessage, <<"msg">>}
FieldValidation(validator, code, message) ==
    [validator |-> validator, code |-> code, message |-> message]

Sibling(ident) == IF ident = "x" THEN "y" ELSE "x"

\* Every rule of the catalogue, with every code and message.
AllValidations(ident) ==
    {FieldValidation(v, c, m) :
        v \in LengthValidators \cup OtherValidators(Sibling(ident)),
        c \in Codes, m \in Messages}

SchemaValidations ==
    {<<>>}
    \cup {<<[function |-> SchemaPath, message |-> m, skip_on_field_errors |-> sk]>> :
            m \in Messages, sk \in BOOLEAN}

(***************************************************************************)
(* What a rule demands of a structure instance, read off the rule itself   *)
(* (section 4.2 of the design): the rule is violated when the field is     *)
(* present at every Option layer and the rule's predicate rejects it.      *)
(***************************************************************************)
Present(text, val) == val.some = OptionLayers(text)

RuleHolds(v, ident, inst) ==
    LET n == inst[ident].v IN
    CASE v.kind = "Length" -> validate_length(v.min, v.max, v.equal, n)
      [] v.kind = "Range" -> validate_range(v.min, v.max, n)
      [] v.kind = "Email" -> validate_email(n)
      [] v.kind = "Url" -> validate_url(n)
      [] v.kind = "CreditCard" -> validate_credit_card(n)
      [] v.kind = "Phone" -> validate_phone(n)
      [] v.kind = "MustMatch" -> inst[ident] = inst[v.other]
      [] v.kind = "Custom" -> custom_ok(v.path, n)
      [] v.kind = "Contains" -> validate_contains(n, v.needle)
      [] v.kind = "Regex" -> is_match(v.path, n)

RuleFails(validation, q, inst) ==
    /\ Present(q._type, inst[q.ident])
    /\ ~RuleHolds(validation.validator, q.ident, inst)

(***************************************************************************)
(* State.                                                                  *)
(*   fq           the FieldQuoter of each field of the structure           *)
(*   inst         the structure instance validate() runs on (self)         *)
(*   schema       the structure rule, <<>> when none is declared           *)
(*   schemaFails  whether the schema function rejects this instance        *)
(*   cur          position in the generated procedure: the index of the    *)
(*                field whose fragments run, then NFields + 1 (the schema  *)
(*                fragment is next), then NFields + 2 (returned)           *)
(*   errors       the ValidationErrors collection                          *)
(*   fails        per field, the declared rules run so far that the        *)
(*                instance violates                                        *)
(*   fieldAdded   records added by per-field fragments                     *)
(*   schemaCalls  invocations of the schema function                       *)
(*   schemaAdded  records added by the schema fragment                     *)
(*   result       the outcome of one translator call and of running the    *)
(*                fragment it returned                                     *)
(***************************************************************************)
VARIABLES fq, inst, schema, schemaFails, cur, errors, fails, fieldAdded,
          schemaCalls, schemaAdded, result

vars == <<fq, inst, schema, schemaFails, cur, errors, fails, fieldAdded,
          schemaCalls, schemaAdded, result>>

Fields == <<"x", "y">>
NFields == Len(Fields)

NoEnv == [i \in Idents |-> Absent]
Ctx == [self |-> inst, env |-> NoEnv, schemaFails |-> schemaFails]

NoResult ==
    [op |-> "none", translator |-> "", validation |-> FieldValidation(Validator(""), "", NoMessage),
     panic |-> FALSE, calls |-> <<>>, added |-> <<>>]

TotalErrors(errs) == Len(errs["x"]) + Len(errs["y"]) + Len(errs[Renamed]) + Len(errs[ALL])

(***************************************************************************)
(* The generated procedure: errors starts as ValidationErrors::new(), the  *)
(* fragments of the fields run in declaration order, each field's rules in *)
(* declaration order, and the schema fragment runs last.  Each declared    *)
(* rule is translated by quote_field_validation and its fragment run in    *)
(* one step.                                                               *)
(***************************************************************************)
NamePairs == {<<"x", "y">>, <<ALL, "y">>, <<"x", ALL>>}
ProcTypes == {TString, TOptString}

Init ==
    /\ \E names \in NamePairs, tx \in ProcTypes :
          fq = [i \in Idents |->
                  IF i = "x" THEN FieldQuoter_new("x", names[1], tx)
                  ELSE FieldQuoter_new("y", names[2], TString)]
    /\ inst \in [Idents -> UNION {ValuesOf(t) : t \in ProcTypes}]
    /\ \A i \in Idents : inst[i] \in ValuesOf(fq[i]._type)
    /\ schema \in SchemaValidations
    /\ schemaFails \in BOOLEAN
    /\ (schema = <<>> => ~schemaFails)
    /\ cur = 1
    /\ errors = ValidationErrors_new
    /\ fails = [i \in Idents |-> 0]
    /\ fieldAdded = 0
    /\ schemaCalls = 0
    /\ schemaAdded = 0
    /\ result = NoResult

\* The rules declared on the fields of the procedure: on x any of one of each
\* kind (MustMatch needs a sibling of the same type), on y Email or Custom.
ProcValidations(ident) ==
    {FieldValidation(v, "code_a", NoMessage) :
        v \in IF ident = "x"
              THEN {[Validator("Length") EXCEPT !.min = <<1>>]}
                   \cup {w \in OtherValidators(Sibling(ident)) :
                           w.kind = "MustMatch" => fq[ident]._type = fq[w.other]._type}
              ELSE {w \in OtherValidators(Sibling(ident)) : w.kind \in {"Email", "Custom"}}}

FieldRule(validation) ==
    /\ cur \in 1..NFields
    /\ TotalErrors(errors) < MaxErrors
    /\ LET q == fq[Fields[cur]]
           t == quote_field_validation(q, validation)
           st == Exec(t.tokens, NoState(errors), Ctx)
       IN  /\ ~t.panic
           /\ errors' = st.errors
           /\ fieldAdded' = fieldAdded + Len(st.added)
           /\ fails' = [fails EXCEPT ![q.ident] =
                           @ + IF RuleFails(validation, q, inst) THEN 1 ELSE 0]
    /\ UNCHANGED <<fq, inst, schema, schemaFails, cur, schemaCalls, schemaAdded, result>>

NextField ==
    /\ cur \in 1..NFields
    /\ cur' = cur + 1
    /\ UNCHANGED <<fq, inst, schema, schemaFails, errors, fails, fieldAdded,
                   schemaCalls, schemaAdded, result>>

SchemaCheck ==
    /\ cur = NFields + 1
    /\ LET st == Exec(quote_schema_validation(schema), NoState(errors), Ctx)
       IN  /\ errors' = st.errors
           /\ schemaCalls' = schemaCalls + Len(st.calls)
           /\ schemaAdded' = schemaAdded + Len(st.added)
    /\ cur' = NFields + 2
    /\ UNCHANGED <<fq, inst, schema, schemaFails, fails, fieldAdded, result>>

Next ==
    \/ \E validation \in ProcValidations(Fields[IF cur \in 1..NFields THEN cur ELSE 1]) :
          FieldRule(validation)
    \/ NextField
    \/ SchemaCheck

Spec == Init /\ [][Next]_vars

(***************************************************************************)
(* One translator call.  A structure with fields x and y of one type, any  *)
(* of the type texts; one rule for x, translated either through the        *)
(* dispatch of quote_field_validation or by a direct call of a per-kind    *)
(* translator; the returned fragment, when there is one, is run once on an *)
(* empty collection.                                                       *)
(***************************************************************************)
InitT ==
    /\ \E tx \in TypeTexts :
          fq = [i \in Idents |-> FieldQuoter_new(i, IF i = "x" THEN Renamed ELSE i, tx)]
    /\ inst \in [Idents -> UNION {ValuesOf(t) : t \in TypeTexts}]
    /\ \A i \in Idents : inst[i] \in ValuesOf(fq[i]._type)
    /\ schema = <<>>
    /\ schemaFails = FALSE
    /\ cur = 0
    /\ errors = ValidationErrors_new
    /\ fails = [i \in Idents |-> 0]
    /\ fieldAdded = 0
    /\ schemaCalls = 0
    /\ schemaAdded = 0
    /\ result = NoResult

Ran(op, translator, validation, t) ==
    LET st == IF t.panic THEN NoState(errors) ELSE Exec(t.tokens, NoState(errors), Ctx)
    IN  /\ result' = [op |-> op, translator |-> translator, validation |-> validation,
                      panic |-> t.panic, calls |-> st.calls, added |-> st.added]
        /\ errors' = st.errors
        /\ UNCHANGED <<fq, inst, schema, schemaFails, cur, fails, fieldAdded,
                       schemaCalls, schemaAdded>>

Dispatch(validation) ==
    /\ result.op = "none"
    /\ Ran("dispatch", validation.validator.kind, validation,
           quote_field_validation(fq["x"], validation))

Direct(translator, validation) ==
    /\ result.op = "none"
    /\ Ran("direct", translator, validation, Translate(translator, fq["x"], validation))

NextT ==
    \/ \E validation \in AllValidations("x") : Dispatch(validation)
    \/ \E translator \in Translators, validation \in AllValidations("x") :
          /\ validation.code = "code_a"
          /\ validation.message = NoMessage
          /\ Direct(translator, validation)

SpecT == InitT /\ [][NextT]_vars

(***************************************************************************)
(* Properties.                                                             *)
(***************************************************************************)
SingleOption(text) ==
    starts_with(text, <<"Option", "<">>) /\ ~starts_with(text, <<"Option", "<", "Option", "<">>)
DoubleOption(text) == starts_with(text, <<"Option", "<", "Option", "<">>)

\* The library function (or user function) that performs the check of a rule.
CheckOf(v) ==
    CASE v.kind = "Length" -> <<"validate_length", "">>
      [] v.kind = "Range" -> <<"validate_range", "">>
      [] v.kind = "Email" -> <<"validate_email", "">>
      [] v.kind = "Url" -> <<"validate_url", "">>
      [] v.kind = "CreditCard" -> <<"validate_credit_card", "">>
      [] v.kind = "Phone" -> <<"validate_phone", "">>
      [] v.kind = "MustMatch" -> <<"validate_must_match", "">>
      [] v.kind = "Custom" -> <<"user_fn", v.path>>
      [] v.kind = "Contains" -> <<"validate_contains", "">>
      [] v.kind = "Regex" -> <<"is_match", v.path>>
      [] OTHER -> <<"", "">>

Dispatched == result.op = "dispatch"
Rule == result.validation
Kind == result.validation.validator.kind
XType == fq["x"]._type
XName == fq["x"].name
Untouched == errors = ValidationErrors_new /\ result.added = <<>>

\* C1: for a field of a single-layer optional type and any rule kind, the
\* fragment quote_field_validation returns runs the rule's check exactly when
\* the field is Some; when it is None the fragment calls nothing and adds no
\* error to the collection.
T1_SingleOptionRunsIffPresent ==
    (Dispatched /\ SingleOption(XType)) =>
        /\ inst["x"].some = 1 => result.calls = <<CheckOf(Rule.validator)>>
        /\ inst["x"].some = 0 => result.calls = <<>> /\ Untouched

W1_SingleOptionAbsent ==
    /\ Dispatched /\ SingleOption(XType)
    /\ inst["x"].some = 0
    /\ Kind = "Custom"

\* C2: for a field of an optional-of-optional type and any rule kind, the
\* check runs exactly when the value is Some(Some(_)); with the outer layer
\* None, or the inner layer None, nothing is called and no error is added.
T2_DoubleOptionRunsIffBothPresent ==
    (Dispatched /\ DoubleOption(XType)) =>
        /\ inst["x"].some = 2 => result.calls = <<CheckOf(Rule.validator)>>
        /\ inst["x"].some < 2 => result.calls = <<>> /\ Untouched

W2_DoubleOptionInnerAbsent ==
    /\ Dispatched /\ DoubleOption(XType)
    /\ inst["x"].some = 1
    /\ Kind = "Email"

OneRecord(err) ==
    /\ result.added = <<[key |-> XName, err |-> err]>>
    /\ errors = errors_add(ValidationErrors_new, XName, err)

MustMatchParams == [NoParams EXCEPT !.value = inst["x"], !.other = inst["y"]]

MustMatchRecorded ==
    /\ Len(result.added) = 1
    /\ OneRecord(result.added[1].err)
    /\ result.added[1].err.params = MustMatchParams

\* C5 as stated: for a MustMatch rule on field x naming sibling y, whatever the
\* type shape of x, equal values give no error and unequal values give exactly
\* one error under x's declared name with parameters value = x, other = y.
CE5_MustMatchAnyShape ==
    (Dispatched /\ Kind = "MustMatch") =>
        /\ inst["x"] = inst["y"] => Untouched
        /\ inst["x"] # inst["y"] => MustMatchRecorded

\* C5, amended: the same, for values of x that are present at every Option
\* layer of its type; when x is absent at some layer the comparison is skipped
\* and no error is produced, whatever y holds.
T5_MustMatchWhenPresent ==
    (Dispatched /\ Kind = "MustMatch") =>
        /\ inst["x"] = inst["y"] => Untouched
        /\ (inst["x"] # inst["y"] /\ Present(XType, inst["x"])) => MustMatchRecorded
        /\ ~Present(XType, inst["x"]) => Untouched

W5_MustMatchMismatch ==
    /\ Dispatched /\ Kind = "MustMatch"
    /\ SingleOption(XType)
    /\ inst["x"] # inst["y"] /\ Present(XType, inst["x"])
    /\ result.added # <<>>

OnlyMin(v) == v.min # NoBound /\ v.max = NoBound /\ v.equal = NoBound

BoundParam(opt) == IF opt = NoBound THEN Absent ELSE Val(0, opt[1])

LengthParams(v) ==
    [NoParams EXCEPT !.min = BoundParam(v.min), !.max = BoundParam(v.max),
                     !.equal = BoundParam(v.equal), !.value = Val(0, inst["x"].v)]

\* C6: the error of a failed Length rule carries min, max and equal exactly
\* for the bounds the rule specifies, plus value; with only min set, a present
\* value of length at least min passes whatever its length, and a shorter one
\* fails with an error carrying min and value but neither max nor equal.
T6_LengthParams ==
    (Dispatched /\ Kind = "Length") =>
        /\ \A i \in 1..Len(result.added) :
              result.added[i].err.params = LengthParams(Rule.validator)
        /\ (OnlyMin(Rule.validator) /\ Present(XType, inst["x"])) =>
              IF inst["x"].v >= Rule.validator.min[1]
              THEN Untouched
              ELSE /\ Len(result.added) = 1
                   /\ OneRecord(result.added[1].err)
                   /\ result.added[1].err.params.min = Val(0, Rule.validator.min[1])
                   /\ result.added[1].err.params.max = Absent
                   /\ result.added[1].err.params.equal = Absent

W6_OnlyMinTooShort ==
    /\ Dispatched /\ Kind = "Length"
    /\ OnlyMin(Rule.validator)
    /\ Present(XType, inst["x"])
    /\ inst["x"].v < Rule.validator.min[1]
    /\ result.added # <<>>

Recorded(i) == result.added[i].err

MessageKept(i) ==
    Rule.message # NoMessage => Recorded(i).message = Rule.message

\* C9 as stated: for every rule kind, the record a failed check stores has the
\* rule's declared code, and the rule's message when one is declared.
CE9_DeclaredCodeEveryKind ==
    Dispatched =>
        \A i \in 1..Len(result.added) :
            Recorded(i).code = Rule.code /\ MessageKept(i)

\* C9, amended: for every rule kind other than Custom the stored record has
\* the rule's declared code; for Custom it is the error the user's function
\* returned, with that error's code; for every kind it has the rule's message
\* when one is declared, and it is the record stored under the field's name.
T9_CodeAndMessage ==
    Dispatched =>
        \A i \in 1..Len(result.added) :
            /\ Recorded(i).code =
                  IF Kind = "Custom"
                  THEN UserFn(Rule.validator.path, inst["x"], Ctx).err.code
                  ELSE Rule.code
            /\ MessageKept(i)
            /\ OneRecord(Recorded(i))

W9_CustomFailsWithMessage ==
    /\ Dispatched /\ Kind = "Custom"
    /\ Rule.message # NoMessage
    /\ result.added # <<>>

\* C7: every per-kind translator called directly with a rule of another kind
\* aborts the generation and returns no fragment.
CE7_MismatchAborts ==
    (result.op = "direct" /\ result.translator # Kind) => result.panic

(***************************************************************************)
(* Properties of the generated procedure.                                  *)
(***************************************************************************)
Returned == cur = NFields + 2

\* C3 as stated: with skip_on_field_errors set, once a per-field check has
\* added an error the schema function is never invoked and no error is
\* recorded under "__all__", and with no per-field error it is invoked exactly
\* once; without the flag it is invoked exactly once in either case.
CE3_SkipOnFieldErrors ==
    (Returned /\ schema # <<>>) =>
        IF schema[1].skip_on_field_errors
        THEN /\ fieldAdded > 0 => schemaCalls = 0 /\ errors[ALL] = <<>>
             /\ fieldAdded = 0 => schemaCalls = 1
        ELSE schemaCalls = 1

\* The part of C3 that is about the invocations and the schema fragment's own
\* records alone.
SchemaInvocations ==
    (Returned /\ schema # <<>>) =>
        IF schema[1].skip_on_field_errors
        THEN /\ fieldAdded > 0 => schemaCalls = 0 /\ schemaAdded = 0
             /\ fieldAdded = 0 => schemaCalls = 1
        ELSE schemaCalls = 1

IsPrefix(a, b) == Len(a) <= Len(b) /\ SubSeq(b, 1, Len(a)) = a

\* Until the schema fragment runs, every field has exactly one record under
\* its declared name for each of its rules run so far that the instance violates.
OneRecordPerFailingRule ==
    (cur <= NFields + 1) => \A i \in Idents : Len(errors[fq[i].name]) = fails[i]

\* No step removes or changes a record of the collection.
RecordsKept == \A k \in Keys : IsPrefix(errors[k], errors'[k])

\* A step that runs one rule of the current field adds one record under the
\* field's declared name when the instance violates the rule, and nothing
\* otherwise; no other key changes.
RuleStepAdds ==
    (cur \in 1..NFields /\ cur' = cur) =>
        LET i == Fields[cur]
            d == fails'[i] - fails[i]
        IN  /\ d \in {0, 1}
            /\ Len(errors'[fq[i].name]) = Len(errors[fq[i].name]) + d
            /\ \A k \in Keys \ {fq[i].name} : errors'[k] = errors[k]

\* C4: the procedure does not stop at the first violation: each rule of a
\* field that the instance violates adds one record of its own under the
\* field's declared name (so that, the fields' fragments having run, the field
\* has as many records as violated rules), a rule that holds adds nothing, and
\* no fragment removes or overwrites a record already in the collection.
T4_EveryFailingRuleRecorded ==
    []OneRecordPerFailingRule /\ [][RuleStepAdds /\ RecordsKept]_vars

W4_TwoFailingRules ==
    /\ cur = 1
    /\ fails["x"] = 2
    /\ Len(errors[fq["x"].name]) = 2
    /\ errors[fq["x"].name][1].code = "code_a"
    /\ errors[fq["x"].name][1] # errors[fq["x"].name][2]

\* C10: every record under "__all__" comes from the schema function: no
\* per-field rule's error is stored under that key, whatever the declared
\* names of the fields.
CE10_AllKeyReserved ==
    Len(errors[ALL]) = schemaAdded

====
